---------------------------- MODULE Spec2Model ----------------------------
(***************************************************************************)
(* lambdapp (src/lambda.c): a source-to-source preprocessor that hoists    *)
(* `lambda T(args) { body }` constructs of a C file into file-local        *)
(* functions.  The model follows main -> generate -> parse (a recursive    *)
(* scanner, here an explicit stack of frames) -> generate_code ->          *)
(* generate_sliced, one action per loop iteration, call or return.         *)
(*                                                                         *)
(* Bytes are one-character strings; offsets are 0-based as in the C code,  *)
(* so byte i of the buffer is src[i + 1].                                  *)
(***************************************************************************)
EXTENDS Integers, Sequences, FiniteSets, TLC

VARIABLES
    src,        \* lambda_source_t.data[0 .. length-1], the bytes of the file
    line,       \* lambda_source_t.line
    stack,      \* the active calls of parse(), outermost first
    ret,        \* <<v>>: the call that just returned handed v to its caller
    lambdas,    \* parse_data_t.lambdas
    positions,  \* parse_data_t.positions
    diag,       \* what parse_error wrote to stderr, one entry per line
    out,        \* what was written to stdout, as tokens
    pc,         \* where main/generate stands
    gen,        \* the locals of generate_code / generate / generate_sliced
    status,     \* <<s>>: the process has ended with status s
    ub,         \* the run has executed undefined behaviour
    argv,       \* main's argument vector, argv[0] first, each a sequence of bytes
    argi,       \* main's loop index i
    file,       \* main's `file`: <<>> while NULL, else <<name>>
    shell       \* lambda-cc: the words of the command line handed to system()

\* the command line, which the scanner and the generator never touch
cli == <<argv, argi, file, shell>>

vars == <<src, line, stack, ret, lambdas, positions, diag, out, pc, gen, status, ub,
          argv, argi, file, shell>>

-----------------------------------------------------------------------------
(* Bytes *)

NUL == "NUL"
NL == "\n"
BSL == "\\"
DQ == "\""
SQ == "'"

Keyword == <<"l", "a", "m", "b", "d", "a">>

\* isspace, line 34: '\t' .. '\r' and ' '
SpaceBytes == {"\t", NL, "\r", "\f", " "}

\* isalpha, isdigit, lines 31-33
AlphaBytes ==
    {"a", "b", "c", "d", "e", "f", "g", "h", "i", "j", "k", "l", "m",
     "n", "o", "p", "q", "r", "s", "t", "u", "v", "w", "x", "y", "z",
     "A", "B", "C", "D", "E", "F", "G", "H", "I", "J", "K", "L", "M",
     "N", "O", "P", "Q", "R", "S", "T", "U", "V", "W", "X", "Y", "Z"}

DigitBytes == {"0", "1", "2", "3", "4", "5", "6", "7", "8", "9"}

isspace(a) == a \in SpaceBytes

isalnum(a) == a \in AlphaBytes \/ a \in DigitBytes

Openers == {"(", "[", "{"}

Closers == {")", "]", "}"}

\* strchr("([{)]}", c)[3] for c among the first three bytes of the literal
ClosingOf(c) == CASE c = "(" -> ")" [] c = "[" -> "]" [] c = "{" -> "}"

\* no value: nothing returned yet, no exit status yet
NoValue == <<>>

ERROR == -1

Length == Len(src)

\* source->data[i]: the buffer is length + 1 bytes, the last one '\0'
Data(i) == IF i < Length THEN src[i + 1] ELSE NUL

-----------------------------------------------------------------------------
(* Scanner helpers *)

RECURSIVE parse_skip_string(_, _)
parse_skip_string(i, check) ==
    IF i = Length THEN i
    ELSE IF Data(i) = check THEN i + 1
    ELSE IF Data(i) = BSL
         THEN IF i + 1 = Length THEN i + 1 ELSE parse_skip_string(i + 2, check)
         ELSE parse_skip_string(i + 1, check)

\* parse_skip_white: <<offset reached, newlines passed>>
RECURSIVE parse_skip_white(_, _)
parse_skip_white(i, n) ==
    IF i # Length /\ isspace(Data(i))
    THEN parse_skip_white(i + 1, IF Data(i) = NL THEN n + 1 ELSE n)
    ELSE <<i, n>>

\* parse_skip_to: <<offset reached, newlines passed>>
RECURSIVE parse_skip_to(_, _, _)
parse_skip_to(i, check, n) ==
    IF i # Length /\ Data(i) # check
    THEN parse_skip_to(i + 1, check, IF Data(i) = NL THEN n + 1 ELSE n)
    ELSE <<i, n>>

\* strncmp(source->data + j, "lambda", 6) == 0
IsKeywordAt(j) == \A k \in 0..5 : Data(j + k) = Keyword[k + 1]

\* strncmp(source->data + i, s, 2) == 0 for a two-byte s
StartsWith2(i, a, b) == Data(i) = a /\ i < Length /\ Data(i + 1) = b

\* the offsets strchr(source->data + i, '\n') can return, as offsets; no
\* match makes the C code subtract the buffer from NULL
NewlineFrom(i) == {k \in i..(Length - 1) : Data(k) = NL}

\* the offsets strstr(source->data + i, "*/") can return
CommentEndFrom(i) == {k \in i..(Length - 2) : Data(k) = "*" /\ Data(k + 1) = "/"}

Min(S) == CHOOSE x \in S : \A y \in S : x <= y

\* NULL - source->data: the buffer ends at or below the top of the address
\* space, so the difference, as a size_t, exceeds length
NullOffsets == {Length + 1, Length + 2}

-----------------------------------------------------------------------------
(* Frames of parse() *)

Range(b, l) == [begin |-> b, length |-> l]

\* memset(&lambda, 0, sizeof(lambda_t))
ZeroLambda ==
    [start |-> 0, type |-> Range(0, 0), args |-> Range(0, 0), body |-> Range(0, 0),
     type_line |-> 0, body_line |-> 0, end_line |-> 0]

\* the locals of parse(source, data, i, inlambda, special) on entry
NewFrame(i, inlambda, special) ==
    [inlambda |-> inlambda, special |-> special, i |-> i, j |-> i,
     parens |-> <<>>, lambda |-> ZeroLambda,
     protopos |-> i, protomove |-> TRUE, preprocessor |-> FALSE,
     domark |-> FALSE,
     pc |-> IF inlambda THEN "enter" ELSE "loop"]

Top == stack[Len(stack)]

SetTop(f) == [stack EXCEPT ![Len(stack)] = f]

Pop == SubSeq(stack, 1, Len(stack) - 1)

Mark(f) == ~f.inlambda /\ ~f.special

Scanning == pc = "parse" /\ stack # <<>> /\ ret = NoValue

InLoop == Scanning /\ Top.pc = "loop" /\ Top.i < Length

\* `mark && !parens.elements` at the head of an iteration
Marking(f) == Mark(f) /\ f.parens = <<>>

\* the iteration that meets the first byte of a top-level construct records
\* the insertion position and stops moving it
Recording(f) == Marking(f) /\ f.protomove /\ ~isspace(Data(f.i))

AfterRecord(f) == IF Recording(f) THEN [f EXCEPT !.protomove = FALSE] ELSE f

lambda_vector_push_position(vec, pos, ln) == Append(vec, [pos |-> pos, line |-> ln])

PositionsAfter(f) ==
    IF Recording(f)
    THEN lambda_vector_push_position(positions, f.protopos, line)
    ELSE positions

\* which arm of the loop body the iteration at f.i takes
Branch(f) ==
    LET c == Data(f.i) IN
    IF Marking(f) /\ f.protomove /\ isspace(c) THEN "space"
    ELSE IF Marking(f) /\ c = ";" THEN "semi"
    ELSE IF Marking(f) /\ c = "#" THEN "hash"
    ELSE IF Marking(f) /\ f.preprocessor /\ c = NL THEN "ppnl"
    ELSE IF c = DQ \/ c = SQ THEN "quote"
    ELSE IF c \in Openers THEN "open"
    ELSE IF c \in Closers THEN "close"
    ELSE IF c # "_" /\ ~isalnum(c) THEN "other"
    ELSE "ident"

CloseTooMany(f) == f.parens = <<>>

CloseMismatch(f) == f.parens # <<>> /\ Data(f.i) # f.parens[Len(f.parens)]

Popped(f) == SubSeq(f.parens, 1, Len(f.parens) - 1)

CloseMatches(f) == f.parens # <<>> /\ Data(f.i) = f.parens[Len(f.parens)]

CloseEndsSpecial(f) ==
    CloseMatches(f) /\ f.special /\ Data(f.i) = ")" /\ Popped(f) = <<>>

CloseEndsLambda(f) ==
    CloseMatches(f) /\ ~CloseEndsSpecial(f)
    /\ f.inlambda /\ Data(f.i) = "}" /\ Popped(f) = <<>>

\* the closing arm reaches its parse_word call
CloseGoesOn(f) == CloseMatches(f) /\ ~CloseEndsSpecial(f) /\ ~CloseEndsLambda(f)

WordBranches == {"semi", "hash", "ppnl", "quote", "open", "close", "other"}

\* the iteration reaches the `!special && parse_word(...)` of its arm
ReachesWord(f) ==
    /\ Branch(f) \in WordBranches
    /\ Branch(f) = "close" => CloseGoesOn(f)

\* the frame as the arm leaves it before its parse_word call
PreWord(f) ==
    IF Branch(f) = "close"
    THEN [f EXCEPT !.parens = Popped(f),
                   !.domark = Mark(f) /\ Popped(f) = <<>> /\ Data(f.i) = "}"]
    ELSE AfterRecord(f)

\* parse_word recurses into parse(source, data, i, true, false)
CallsLambda(f) == ~f.special /\ f.j # f.i /\ IsKeywordAt(f.j)

\* parse_word without a lambda: <<offset returned, newlines counted>>;
\* a comment without its terminator yields NULL - source->data
WordResults(f) ==
    LET i == f.i IN
    IF f.special THEN {<<i, 0>>}
    ELSE IF Data(i) = NL THEN {<<i, 1>>}
    ELSE IF StartsWith2(i, "/", "/")
         THEN IF NewlineFrom(i) # {} THEN {<<Min(NewlineFrom(i)), 0>>}
              ELSE {<<k, 0>> : k \in NullOffsets}
    ELSE IF StartsWith2(i, "/", "*")
         THEN IF CommentEndFrom(i) # {} THEN {<<Min(CommentEndFrom(i)), 0>>}
              ELSE {<<k, 0>> : k \in NullOffsets}
    ELSE {<<i, 0>>}

\* the rest of an arm without `protopos = i` behind a `;` (line 271): the
\* position ahead of the statement is recorded once more
FinishKeepsPosition(f, branch, r) ==
    LET g == [f EXCEPT !.i = r + 1, !.j = r + 1, !.pc = "loop"] IN
    CASE branch = "semi" -> [g EXCEPT !.protomove = TRUE]
      [] branch = "hash" ->
            [g EXCEPT !.protomove = FALSE, !.protopos = r + 1, !.preprocessor = TRUE]
      [] branch = "ppnl" ->
            [g EXCEPT !.protomove = TRUE, !.protopos = r + 1, !.preprocessor = FALSE]
      [] branch = "quote" ->
            LET e == parse_skip_string(r + 1, Data(r)) IN [g EXCEPT !.i = e, !.j = e]
      [] branch = "open" -> [g EXCEPT !.parens = Append(f.parens, ClosingOf(Data(r)))]
      [] branch = "close" ->
            IF f.domark THEN [g EXCEPT !.protopos = r + 1, !.protomove = TRUE] ELSE g
      [] branch = "other" -> g

\* the rest of an arm once parse_word has returned r
Finish(f, branch, r) ==
    LET g == [f EXCEPT !.i = r + 1, !.j = r + 1, !.pc = "loop"] IN
    CASE branch = "semi" -> [g EXCEPT !.protomove = TRUE, !.protopos = r + 1]
      [] branch = "hash" ->
            [g EXCEPT !.protomove = FALSE, !.protopos = r + 1, !.preprocessor = TRUE]
      [] branch = "ppnl" ->
            [g EXCEPT !.protomove = TRUE, !.protopos = r + 1, !.preprocessor = FALSE]
      [] branch = "quote" ->
            LET e == parse_skip_string(r + 1, Data(r)) IN [g EXCEPT !.i = e, !.j = e]
      [] branch = "open" -> [g EXCEPT !.parens = Append(f.parens, ClosingOf(Data(r)))]
      [] branch = "close" ->
            IF f.domark THEN [g EXCEPT !.protopos = r + 1, !.protomove = TRUE] ELSE g
      [] branch = "other" -> g

-----------------------------------------------------------------------------
(* Inputs: the files the model reads *)

\* the pieces the input files are made of
LambdaHead == Keyword \o <<" ", "T", "(", ")">>

LambdaOpen == LambdaHead \o <<"{">>

\* every concatenation of at most n pieces of S
RECURSIVE Concats(_, _)
Concats(S, n) ==
    IF n = 0 THEN {<<>>}
    ELSE LET R == Concats(S, n - 1) IN R \cup {r \o x : r \in R, x \in S}

\* unstructured files: delimiters, blanks and keywords in any order
MaxSoup == 4

SoupPieces ==
    {Keyword, <<" ">>, <<"(">>, <<")">>, <<"]">>, <<"{">>, <<"}">>, <<NL>>}

Soup == Concats(SoupPieces, MaxSoup)

\* structured files: statements, newlines, a stray `]`, brace groups and
\* lambdas, nested in each other; Programs[n] holds those of n items
MaxProgram == 4

Atoms == {<<"x", ";">>, <<NL>>, <<"]">>}

Opens == {LambdaOpen, <<"{">>}

Programs[n \in 0..(MaxProgram + 1)] ==
    IF n = 0 THEN {<<>>}
    ELSE {a \o p : a \in Atoms, p \in Programs[n - 1]}
         \cup UNION {{o \o p \o <<"}">> \o q : o \in Opens, p \in Programs[k],
                                              q \in Programs[n - 1 - k]}
                     : k \in 0..(n - 1)}

\* files that reach the rarer paths: a preprocessor line, literals, comments
\* with and without their end, a parenthesized return type, a keyword
\* followed at once by `(` or `"`, words that only begin or end with the
\* keyword, a word right behind a lambda, comments that hold delimiters in
\* an argument list and in a body, a keyword ahead of a string literal,
\* directive lines that hold a `;`, a brace group and a comment, a keyword
\* that a quote, a closing parenthesis and a `;` end, literals with no
\* closing quote
Corpus ==
    {<<"#", "d", NL>> \o LambdaOpen \o <<"}", ";">>,
     <<"f", "(", ")", "{", DQ, "}", BSL, DQ, DQ, ";", SQ, "{", SQ>> \o LambdaOpen
         \o <<"}", ";", "}">>,
     <<"/", "/", "(", NL, "/", "*", "{", NL, "*", "/">> \o LambdaOpen \o <<";", "}">>,
     <<"x", ";", "/", "/", "c">>,
     <<"x", ";", "/", "*", "c">>,
     Keyword \o <<" ", "(", "*", "T", ")", "(", "x", ")", "{", "y", "}", ";">>,
     Keyword \o <<"(", "T", ")", "(", ")", "{", "}", ";">>,
     Keyword \o <<"(", "T", ")", "(", ")", "{", "/", "/">>,
     Keyword \o <<DQ>>,
     Keyword \o <<"s", " ", "T", "(", ")", "{", "}", ";">>,
     Keyword \o <<"_", "t", " ", "x", ";">>,
     <<"x">> \o LambdaOpen \o <<"}", ";">>,
     LambdaOpen \o <<NL, "}", "x">>,
     <<"x", ";">> \o Keyword \o <<" ", "T", "(", "/", "*", ")", "*", "/", ")", "{", "}", ";">>,
     <<";", "/", "*", "c", "*", "/">> \o LambdaOpen \o <<"/", "*", "}", "*", "/", "}", ";">>,
     <<"x", ";">> \o Keyword \o <<" ", DQ, "(", ")", "{", "}", DQ, ";">>,
     <<"x", ";", NL, "#", "d", " ", "a", ";", " ", "b", NL, "y", ";">>,
     <<"#", "d", " ", "{", "}", " ", "b", NL, "y", ";">>,
     <<"#", "d", " ", "/", "/", "c", NL, "y", ";", NL, "z", ";">>,
     Keyword \o <<DQ, DQ, "(", ")", "{", "}", "{", "}">>,
     <<"(">> \o Keyword \o <<")", "(", ")", "{", "}">>,
     Keyword \o <<";", "(", ")", "{", "}", "x">>,
     <<"x", ";", DQ, "a", BSL>>,
     <<"x", ";", SQ, "a">>}

Inputs == Soup \cup UNION {Programs[n] : n \in 0..MaxProgram} \cup Corpus

-----------------------------------------------------------------------------
(* main(): the file named on the command line is about to be read *)

\* the scan is studied for `lambdapp f`: main has taken f for its file
ProgramName == <<"l", "a", "m", "b", "d", "a", "p", "p">>

FileName == <<"f">>

InitWith(inputs) ==
    /\ src \in inputs
    /\ line = 1
    /\ stack = <<>>
    /\ ret = NoValue
    /\ lambdas = <<>>
    /\ positions = <<>>
    /\ diag = <<>>
    /\ out = <<>>
    /\ pc = "open"
    /\ gen = [pos |-> 0, len |-> 0, lam |-> 0, proto |-> 0, idx |-> 0]
    /\ status = NoValue
    /\ ub = FALSE
    /\ argv = <<ProgramName, FileName>>
    /\ argi = 2
    /\ file = <<FileName>>
    /\ shell = <<>>

Init == InitWith(Inputs)

\* parse_open, lines 118-137, then generate(), lines 472-474: the file is
\* read with fread(data, length, 1, handle), which returns 1
OpenFile ==
    /\ pc = "open"
    /\ Length # 0
    /\ pc' = "parse"
    /\ stack' = <<NewFrame(0, FALSE, FALSE)>>
    /\ UNCHANGED <<cli, src, line, ret, lambdas, positions, diag, out, gen, status, ub>>

\* parse_open, lines 132-133 and 139-143, main(), lines 552-555: fread of
\* one item of zero bytes returns 0, and main gives up with status 1
OpenFail ==
    /\ pc = "open"
    /\ Length = 0
    /\ diag' = Append(diag, [line |-> 0, message |-> "failed to open file"])
    /\ pc' = "done"
    /\ status' = <<1>>
    /\ UNCHANGED <<cli, src, line, stack, ret, lambdas, positions, out, gen, ub>>

-----------------------------------------------------------------------------
(* parse(): the loop, lines 254-348 *)

\* lines 255-262: whitespace ahead of a top-level construct moves protopos
StepMarkSpace ==
    /\ InLoop
    /\ Branch(Top) = "space"
    /\ line' = IF Data(Top.i) = NL THEN line + 1 ELSE line
    /\ stack' = SetTop([Top EXCEPT !.i = Top.i + 1, !.j = Top.i + 1,
                                   !.protopos = Top.i + 1])
    /\ UNCHANGED <<cli, src, ret, lambdas, positions, diag, out, pc, gen, status, ub>>

\* lines 346-347: a byte of a word
StepIdent ==
    /\ InLoop
    /\ Branch(Top) = "ident"
    /\ positions' = PositionsAfter(Top)
    /\ stack' = SetTop([AfterRecord(Top) EXCEPT !.i = Top.i + 1])
    /\ UNCHANGED <<cli, src, line, ret, lambdas, diag, out, pc, gen, status, ub>>

\* an arm whose parse_word call, if made, does not recurse
Boundary ==
    /\ ReachesWord(Top)
    /\ ~CallsLambda(Top)
    /\ positions' = PositionsAfter(Top)
    /\ \E w \in WordResults(Top) :
          /\ line' = line + w[2]
          /\ stack' = SetTop(Finish(PreWord(Top), Branch(Top), w[1]))
          /\ ub' = (ub \/ w[1] > Length)
    /\ UNCHANGED <<cli, src, ret, lambdas, diag, out, pc, gen, status>>

\* lines 267-274
StepSemi ==
    /\ InLoop
    /\ Branch(Top) = "semi"
    /\ Boundary

\* lines 276-284
StepHash ==
    /\ InLoop
    /\ Branch(Top) = "hash"
    /\ Boundary

\* lines 285-293
StepPreprocessorEnd ==
    /\ InLoop
    /\ Branch(Top) = "ppnl"
    /\ Boundary

\* lines 296-303
StepQuote ==
    /\ InLoop
    /\ Branch(Top) = "quote"
    /\ Boundary

\* lines 304-308
StepOpen ==
    /\ InLoop
    /\ Branch(Top) = "open"
    /\ Boundary

\* lines 334-341
StepClose ==
    /\ InLoop
    /\ Branch(Top) = "close"
    /\ Boundary

\* lines 342-345
StepOther ==
    /\ InLoop
    /\ Branch(Top) = "other"
    /\ Boundary

\* parse_error, line 187: the line cited is source->line
parse_error(message) == Append(diag, [line |-> line, message |-> message])

\* lines 310-313 without the test of the empty stack: the closer is stepped
\* over and the scan goes on
StepCloseTooManySkips ==
    /\ InLoop
    /\ Branch(Top) = "close"
    /\ CloseTooMany(Top)
    /\ positions' = PositionsAfter(Top)
    /\ stack' = SetTop([PreWord(Top) EXCEPT !.i = Top.i + 1, !.j = Top.i + 1])
    /\ UNCHANGED <<cli, src, line, ret, lambdas, diag, out, pc, gen, status, ub>>

\* lines 310-313
StepCloseTooMany ==
    /\ InLoop
    /\ Branch(Top) = "close"
    /\ CloseTooMany(Top)
    /\ positions' = PositionsAfter(Top)
    /\ diag' = parse_error("too many closing parenthesis")
    /\ stack' = Pop
    /\ ret' = <<ERROR>>
    /\ UNCHANGED <<cli, src, line, lambdas, out, pc, gen, status, ub>>

\* lines 314-318
StepCloseMismatch ==
    /\ InLoop
    /\ Branch(Top) = "close"
    /\ CloseMismatch(Top)
    /\ diag' = parse_error("mismatching")
    /\ stack' = Pop
    /\ ret' = <<ERROR>>
    /\ UNCHANGED <<cli, src, line, lambdas, positions, out, pc, gen, status, ub>>

\* lines 321-324
StepCloseSpecial ==
    /\ InLoop
    /\ Branch(Top) = "close"
    /\ CloseEndsSpecial(Top)
    /\ stack' = Pop
    /\ ret' = <<Top.i>>
    /\ UNCHANGED <<cli, src, line, lambdas, positions, diag, out, pc, gen, status, ub>>

\* a push that puts the record at the head of the table
lambda_vector_push_front(vec, lambda) == <<lambda>> \o vec

lambda_vector_push_lambda(vec, lambda) == Append(vec, lambda)

\* lines 325-332
StepCloseLambda ==
    /\ InLoop
    /\ Branch(Top) = "close"
    /\ CloseEndsLambda(Top)
    /\ lambdas' = lambda_vector_push_lambda(lambdas,
                     [Top.lambda EXCEPT !.body.length = Top.i - Top.lambda.body.begin,
                                        !.end_line = line])
    /\ stack' = Pop
    /\ ret' = <<Top.i>>
    /\ UNCHANGED <<cli, src, line, positions, diag, out, pc, gen, status, ub>>

\* parse_word, lines 191-194: the word that ended is the keyword
CallLambda ==
    /\ InLoop
    /\ ReachesWord(Top)
    /\ CallsLambda(Top)
    /\ positions' = PositionsAfter(Top)
    /\ stack' = Append(SetTop([PreWord(Top) EXCEPT !.pc = Branch(Top)]),
                       NewFrame(Top.i, TRUE, FALSE))
    /\ UNCHANGED <<cli, src, line, ret, lambdas, diag, out, pc, gen, status, ub>>

\* line 254 false, lines 350-351
LoopExit ==
    /\ Scanning
    /\ Top.pc = "loop"
    /\ Top.i >= Length
    /\ stack' = Pop
    /\ ret' = <<Top.i>>
    /\ UNCHANGED <<cli, src, line, lambdas, positions, diag, out, pc, gen, status, ub>>

-----------------------------------------------------------------------------
(* parse(): the capture of a lambda's signature, lines 229-251 *)

\* lines 229-239
LambdaEnter ==
    /\ Scanning
    /\ Top.pc = "enter"
    /\ LET w == parse_skip_white(Top.i, 0)
           f == [Top EXCEPT !.lambda.start = Top.i - 6,
                            !.lambda.type.begin = w[1],
                            !.lambda.type_line = line + w[2],
                            !.i = w[1]]
       IN /\ line' = line + w[2]
          /\ stack' = IF Data(w[1]) = "("
                      THEN Append(SetTop([f EXCEPT !.pc = "type"]),
                                  NewFrame(w[1], FALSE, TRUE))
                      ELSE SetTop([f EXCEPT !.pc = "sig"])
    /\ UNCHANGED <<cli, src, ret, lambdas, positions, diag, out, pc, gen, status, ub>>

\* lines 240-243
LambdaArgs ==
    /\ Scanning
    /\ Top.pc = "sig"
    /\ LET w == parse_skip_to(Top.i, "(", 0)
           f == [Top EXCEPT !.lambda.type.length = w[1] - Top.lambda.type.begin,
                            !.lambda.args.begin = w[1],
                            !.i = w[1],
                            !.pc = "args"]
       IN /\ line' = line + w[2]
          /\ stack' = Append(SetTop(f), NewFrame(w[1], FALSE, TRUE))
    /\ UNCHANGED <<cli, src, ret, lambdas, positions, diag, out, pc, gen, status, ub>>

Returned == pc = "parse" /\ stack # <<>> /\ ret # NoValue

\* lines 235-238: back from the scan of a parenthesized return type
ReturnType ==
    /\ Returned
    /\ Top.pc = "type"
    /\ IF ret[1] = ERROR
       THEN stack' = Pop /\ ret' = <<ERROR>>
       ELSE stack' = SetTop([Top EXCEPT !.i = ret[1], !.pc = "sig"]) /\ ret' = NoValue
    /\ UNCHANGED <<cli, src, line, lambdas, positions, diag, out, pc, gen, status, ub>>

\* lines 243-253 without the test of line 244: a failed scan of the argument
\* list is taken for an empty one
ReturnArgsSwallows ==
    /\ Returned
    /\ Top.pc = "args"
    /\ LET r == IF ret[1] = ERROR THEN Top.i ELSE ret[1]
           w == parse_skip_to(r, "{", 0) IN
       /\ line' = line + w[2]
       /\ ret' = NoValue
       /\ stack' = SetTop([Top EXCEPT
              !.lambda.args.length = r - Top.lambda.args.begin + 1,
              !.lambda.body.begin = w[1],
              !.lambda.body_line = line + w[2],
              !.i = w[1], !.j = w[1], !.pc = "loop"])
    /\ UNCHANGED <<cli, src, lambdas, positions, diag, out, pc, gen, status, ub>>

\* lines 243-253: back from the scan of the argument list
ReturnArgs ==
    /\ Returned
    /\ Top.pc = "args"
    /\ IF ret[1] = ERROR
       THEN stack' = Pop /\ ret' = <<ERROR>> /\ line' = line
       ELSE LET w == parse_skip_to(ret[1], "{", 0) IN
            /\ line' = line + w[2]
            /\ ret' = NoValue
            /\ stack' = SetTop([Top EXCEPT
                   !.lambda.args.length = ret[1] - Top.lambda.args.begin + 1,
                   !.lambda.body.begin = w[1],
                   !.lambda.body_line = line + w[2],
                   !.i = w[1], !.j = w[1], !.pc = "loop"])
    /\ UNCHANGED <<cli, src, lambdas, positions, diag, out, pc, gen, status, ub>>

\* the arm's use of the offset parse_word returned is defined
FinishDefined(f, r) ==
    CASE f.pc = "quote" -> r < Length
      [] f.pc = "open" -> Data(r) \in Openers
      [] OTHER -> TRUE

\* back in the arm whose parse_word call captured a lambda
ReturnWord ==
    /\ Returned
    /\ Top.pc \in WordBranches
    /\ ret[1] # ERROR => FinishDefined(Top, ret[1])
    /\ IF ret[1] = ERROR
       THEN stack' = Pop /\ ret' = <<ERROR>>
       ELSE stack' = SetTop(Finish(Top, Top.pc, ret[1])) /\ ret' = NoValue
    /\ UNCHANGED <<cli, src, line, lambdas, positions, diag, out, pc, gen, status, ub>>

\* what an out-of-bounds read of one byte can yield, as far as the scanner
\* tells bytes apart: each closing delimiter, or a byte that is none
GarbageBytes == Closers \cup {NUL}

\* the process is killed by SIGSEGV; nothing buffered reaches stdout
Crashed ==
    /\ pc' = "done"
    /\ status' = <<128 + 11>>
    /\ ub' = TRUE

\* line 307 after a captured lambda: source->data[i] is no longer one of
\* "([{", so strchr("([{)]}", ...)[3] reads past the literal (or strchr
\* yields NULL); the byte pushed is whatever lies there
ReturnWordBadOpener ==
    /\ Returned
    /\ Top.pc = "open"
    /\ ret[1] # ERROR
    /\ ~FinishDefined(Top, ret[1])
    /\ \/ /\ \E g \in GarbageBytes :
               stack' = SetTop([Top EXCEPT !.parens = Append(Top.parens, g),
                                           !.i = ret[1] + 1, !.j = ret[1] + 1,
                                           !.pc = "loop"])
          /\ ret' = NoValue
          /\ ub' = TRUE
          /\ UNCHANGED <<pc, status>>
       \/ /\ ret[1] > Length
          /\ Crashed
          /\ UNCHANGED <<stack, ret>>
    /\ UNCHANGED <<cli, src, line, lambdas, positions, diag, out, gen>>

\* lines 299 and 303 after a lambda capture that ran to the end of the
\* buffer: parse_skip_string starts past the terminating '\0' and reads on
\* until a byte outside the buffer stops it, or the process dies
ReturnWordBadQuote ==
    /\ Returned
    /\ Top.pc = "quote"
    /\ ret[1] # ERROR
    /\ ~FinishDefined(Top, ret[1])
    /\ \/ /\ \E e \in NullOffsets :
               stack' = SetTop([Top EXCEPT !.i = e, !.j = e, !.pc = "loop"])
          /\ ret' = NoValue
          /\ ub' = TRUE
          /\ UNCHANGED <<pc, status>>
       \/ /\ Crashed
          /\ UNCHANGED <<stack, ret>>
    /\ UNCHANGED <<cli, src, line, lambdas, positions, diag, out, gen>>

-----------------------------------------------------------------------------
(* Generator: what is written to stdout, as tokens *)

Tok(t, n) == [t |-> t, n |-> n]

\* a write that loses the last byte of the span
fwrite_short(pos, n) == [k \in 1..(n - 1) |-> Tok("src", pos + k - 1)]

\* fwrite(source + pos, n, 1, out): the bytes at offsets pos .. pos + n - 1
fwrite(pos, n) == [k \in 1..n |-> Tok("src", pos + k - 1)]

\* generate_marker: "# <line> \"<file>\"\n"
generate_marker(ln) == <<Tok("marker", ln)>>

\* "\n#line <line>\n"
LineDirective(ln) == <<Tok("nl", 0), Tok("line", ln)>>

\* generate_begin, lines 402-407: "\n#line <type_line>\nstatic " type " lambda_<idx>" args
generate_begin(funcs, idx) ==
    LineDirective(funcs[idx + 1].type_line) \o <<Tok("static", 0)>>
    \o fwrite(funcs[idx + 1].type.begin, funcs[idx + 1].type.length)
    \o <<Tok("name", idx)>>
    \o fwrite(funcs[idx + 1].args.begin, funcs[idx + 1].args.length)

\* next_prototype_position, lines 409-417
RECURSIVE next_prototype_position(_, _)
next_prototype_position(lam, proto) ==
    IF lam = Len(lambdas) THEN Len(positions)
    ELSE IF proto = Len(positions) THEN Len(positions) - 1
    ELSE IF positions[proto + 1].pos > lambdas[lam + 1].start THEN proto - 1
    ELSE next_prototype_position(lam, proto + 1)

\* generate_prototypes, lines 419-428; no next position stands for (size_t)-1
RECURSIVE PrototypesFrom(_, _)
PrototypesFrom(lam, proto) ==
    IF lam = Len(lambdas) THEN <<>>
    ELSE IF proto + 1 # Len(positions)
            /\ lambdas[lam + 1].start > positions[proto + 2].pos THEN <<>>
    ELSE generate_begin(lambdas, lam) \o <<Tok("semi", 0)>>
         \o PrototypesFrom(lam + 1, proto)

generate_prototypes(lam, proto) == PrototypesFrom(lam, proto) \o <<Tok("nl", 0)>>

\* `for (++lam; lam != elements && funcs[lam].start < pos; ++lam)`: called
\* with the incremented lam
RECURSIVE SkipNested(_, _)
SkipNested(lam, pos) ==
    IF lam # Len(lambdas) /\ lambdas[lam + 1].start < pos
    THEN SkipNested(lam + 1, pos)
    ELSE lam

\* qsort over <<key, element>> pairs: ascending by key
RECURSIVE SortPairs(_)
SortPairs(s) ==
    IF s = <<>> THEN <<>>
    ELSE LET m == CHOOSE k \in 1..Len(s) :
                     /\ \A l \in 1..Len(s) : s[k][1] <= s[l][1]
                     /\ \A l \in 1..(k - 1) : s[l][1] # s[k][1]
         IN <<s[m][2]>> \o SortPairs(SubSeq(s, 1, m - 1) \o SubSeq(s, m + 1, Len(s)))

\* qsort(data.lambdas.funcs, ..., &generate_compare): by start
SortLambdas(funcs) == SortPairs([k \in 1..Len(funcs) |-> <<funcs[k].start, funcs[k]>>])

\* qsort(data.positions.positions, ..., &compare_position): by pos
SortPositions(ps) == SortPairs([k \in 1..Len(ps) |-> <<ps[k].pos, ps[k]>>])

\* generate(), lines 474-478: the scan failed
GenerateAbort ==
    /\ pc = "parse"
    /\ stack = <<>>
    /\ ret = <<ERROR>>
    /\ pc' = "exit"
    /\ UNCHANGED <<cli, src, line, stack, ret, lambdas, positions, diag, out, gen, status, ub>>

\* generate(), lines 480-485, and generate_code, line 433
GenerateBegin ==
    /\ pc = "parse"
    /\ stack = <<>>
    /\ ret # NoValue
    /\ ret # <<ERROR>>
    /\ lambdas' = SortLambdas(lambdas)
    /\ positions' = SortPositions(positions)
    /\ out' = generate_marker(1)
    /\ gen' = [pos |-> 0, len |-> Length, lam |-> 0, proto |-> 0, idx |-> 0]
    /\ pc' = "proto"
    /\ UNCHANGED <<cli, src, line, stack, ret, diag, status, ub>>

\* generate_code, line 433
CodeBegin ==
    /\ pc = "proto"
    /\ gen' = [gen EXCEPT !.proto = next_prototype_position(0, 1)]
    /\ pc' = "code"
    /\ UNCHANGED <<cli, src, line, stack, ret, lambdas, positions, diag, out, status, ub>>

\* the test of lines 435 and 379
NoLambdaAhead ==
    IF gen.lam = Len(lambdas) THEN TRUE
    ELSE lambdas[gen.lam + 1].start > gen.pos + gen.len

\* fwrite(source + pos, n, 1, out) stays inside the buffer
Readable(pos, n) == n >= 0 /\ pos + n <= Length + 1

\* generate_code, lines 434-438
CodeRest ==
    /\ pc = "code"
    /\ gen.len # 0
    /\ NoLambdaAhead
    /\ Readable(gen.pos, gen.len)
    /\ out' = out \o fwrite(gen.pos, gen.len)
    /\ pc' = "hoist"
    /\ UNCHANGED <<cli, src, line, stack, ret, lambdas, positions, diag, gen, status, ub>>

\* generate_code, line 434 false
CodeEnd ==
    /\ pc = "code"
    /\ gen.len = 0
    /\ pc' = "hoist"
    /\ UNCHANGED <<cli, src, line, stack, ret, lambdas, positions, diag, out, gen, status, ub>>

\* the test of lines 440-443: an insertion position lies ahead in the span
InsertsPrototypes ==
    IF gen.proto = Len(positions) THEN FALSE
    ELSE /\ gen.pos < positions[gen.proto + 1].pos
         /\ gen.pos + gen.len >= positions[gen.proto + 1].pos

\* generate_code, lines 440-466: forward declarations when a position is
\* crossed, then the reference in place of the lambda
CodeLambda ==
    /\ pc = "code"
    /\ gen.len # 0
    /\ ~NoLambdaAhead
    /\ LET ins == InsertsPrototypes
           point == IF ins THEN positions[gen.proto + 1].pos ELSE gen.pos
           pre == IF ins
                  THEN fwrite(gen.pos, point - gen.pos)
                       \o generate_prototypes(gen.lam, gen.proto)
                       \o LineDirective(positions[gen.proto + 1].line)
                  ELSE <<>>
           lambda == lambdas[gen.lam + 1]
           length == lambda.body.begin + lambda.body.length + 1 - point
           lam == SkipNested(gen.lam + 1, point + length)
       IN /\ out' = out \o pre \o fwrite(point, lambda.start - point)
                        \o <<Tok("ref", gen.lam)>>
          /\ gen' = [gen EXCEPT !.pos = point + length,
                                !.len = gen.len - (point - gen.pos) - length,
                                !.lam = lam,
                                !.proto = next_prototype_position(lam, gen.proto)]
    /\ UNCHANGED <<cli, src, line, stack, ret, lambdas, positions, diag, pc, status, ub>>

\* generate(), lines 487-491: the head of hoisted function idx
HoistBegin ==
    /\ pc = "hoist"
    /\ gen.idx < Len(lambdas)
    /\ LET lambda == lambdas[gen.idx + 1] IN
       /\ out' = out \o generate_begin(lambdas, gen.idx)
                     \o LineDirective(lambda.body_line)
       /\ gen' = [gen EXCEPT !.pos = lambda.body.begin,
                             !.len = lambda.body.length + 1,
                             !.lam = gen.idx + 1]
    /\ pc' = "sliced"
    /\ UNCHANGED <<cli, src, line, stack, ret, lambdas, positions, diag, status, ub>>

\* generate_sliced, lines 378-382, or line 378 false: the rest of the body
SlicedRest ==
    /\ pc = "sliced"
    /\ IF gen.len = 0 THEN TRUE ELSE NoLambdaAhead /\ Readable(gen.pos, gen.len)
    /\ out' = out \o fwrite(gen.pos, gen.len)
    /\ gen' = [gen EXCEPT !.idx = gen.idx + 1]
    /\ pc' = "hoist"
    /\ UNCHANGED <<cli, src, line, stack, ret, lambdas, positions, diag, status, ub>>

\* generate_sliced, lines 384-398: " ({" type " lambda_<lam>" args "; &lambda_<lam>; })"
SlicedLambda ==
    /\ pc = "sliced"
    /\ gen.len # 0
    /\ ~NoLambdaAhead
    /\ LET lambda == lambdas[gen.lam + 1]
           length == lambda.body.begin + lambda.body.length + 1 - gen.pos
       IN /\ out' = out \o fwrite(gen.pos, lambda.start - gen.pos)
                        \o <<Tok("open", 0)>>
                        \o fwrite(lambda.type.begin, lambda.type.length)
                        \o <<Tok("name", gen.lam)>>
                        \o fwrite(lambda.args.begin, lambda.args.length)
                        \o <<Tok("close", gen.lam)>>
          /\ gen' = [gen EXCEPT !.pos = gen.pos + length,
                                !.len = gen.len - length,
                                !.lam = SkipNested(gen.lam + 1, gen.pos + length)]
    /\ UNCHANGED <<cli, src, line, stack, ret, lambdas, positions, diag, pc, status, ub>>

\* lines 380 and 436 with a length that has wrapped below zero: fwrite
\* reads past the buffer; it writes what it finds there, or the process dies
WriteOverrun ==
    /\ pc \in {"code", "sliced"}
    /\ gen.len # 0
    /\ NoLambdaAhead
    /\ ~Readable(gen.pos, gen.len)
    /\ \/ /\ out' = Append(out, Tok("garbage", 0))
          /\ gen' = [gen EXCEPT !.idx = IF pc = "sliced" THEN gen.idx + 1 ELSE gen.idx]
          /\ pc' = "hoist"
          /\ ub' = TRUE
          /\ UNCHANGED status
       \/ /\ Crashed
          /\ UNCHANGED <<out, gen>>
    /\ UNCHANGED <<cli, src, line, stack, ret, lambdas, positions, diag>>

\* generate(), lines 487 false and 494-498
HoistEnd ==
    /\ pc = "hoist"
    /\ gen.idx = Len(lambdas)
    /\ out' = Append(out, Tok("nl", 0))
    /\ pc' = "exit"
    /\ UNCHANGED <<cli, src, line, stack, ret, lambdas, positions, diag, gen, status, ub>>

\* main(), lines 557-560
Exit ==
    /\ pc = "exit"
    /\ pc' = "done"
    /\ status' = <<0>>
    /\ UNCHANGED <<cli, src, line, stack, ret, lambdas, positions, diag, out, gen, ub>>

Next ==
    \/ OpenFile
    \/ OpenFail
    \/ StepMarkSpace
    \/ StepIdent
    \/ StepSemi
    \/ StepHash
    \/ StepPreprocessorEnd
    \/ StepQuote
    \/ StepOpen
    \/ StepClose
    \/ StepOther
    \/ StepCloseTooMany
    \/ StepCloseMismatch
    \/ StepCloseSpecial
    \/ StepCloseLambda
    \/ CallLambda
    \/ LoopExit
    \/ LambdaEnter
    \/ LambdaArgs
    \/ ReturnType
    \/ ReturnArgs
    \/ ReturnWord
    \/ ReturnWordBadOpener
    \/ ReturnWordBadQuote
    \/ GenerateAbort
    \/ GenerateBegin
    \/ CodeBegin
    \/ CodeRest
    \/ CodeEnd
    \/ CodeLambda
    \/ HoistBegin
    \/ SlicedRest
    \/ SlicedLambda
    \/ WriteOverrun
    \/ HoistEnd
    \/ Exit

Spec == Init /\ [][Next]_vars

-----------------------------------------------------------------------------
(* main() of lambda.c: the argument vector, lines 509-550 *)

argc == Len(argv)

\* argv[i]
Arg(i) == argv[i + 1]

\* argv[i][0], the terminating NUL for an empty argument
FirstByte(a) == IF a = <<>> THEN NUL ELSE a[1]

DashDash == <<"-", "-">>

HelpFlags == {<<"-", "h">>, <<"-", "-", "h", "e", "l", "p">>}

VersionFlags == {<<"-", "V">>, <<"-", "-", "v", "e", "r", "s", "i", "o", "n">>}

\* what main writes to stderr
Complain(messages) ==
    diag \o [k \in 1..Len(messages) |-> [line |-> 0, message |-> messages[k]]]

MaxArgs == 3

ArgWords ==
    {DashDash, <<"-">>, <<"-", "x">>, <<"f">>, <<"g">>, <<>>}
    \cup HelpFlags \cup VersionFlags

RECURSIVE ArgLists(_)
ArgLists(n) ==
    IF n = 0 THEN {<<>>}
    ELSE ArgLists(n - 1) \cup {Append(v, a) : v \in ArgLists(n - 1), a \in ArgWords}

\* main entered with any argument vector: lines 510-513
MainInit ==
    /\ argv \in {<<ProgramName>> \o v : v \in ArgLists(MaxArgs)}
    /\ argi = 1
    /\ file = NoValue
    /\ pc = "args"
    /\ src = <<"x">>
    /\ line = 1
    /\ stack = <<>>
    /\ ret = NoValue
    /\ lambdas = <<>>
    /\ positions = <<>>
    /\ diag = <<>>
    /\ out = <<>>
    /\ gen = [pos |-> 0, len |-> 0, lam |-> 0, proto |-> 0, idx |-> 0]
    /\ status = NoValue
    /\ ub = FALSE
    /\ shell = <<>>

InArgs == pc = "args" /\ argi # argc

\* lines 515-518
ArgDashDash ==
    /\ InArgs
    /\ Arg(argi) = DashDash
    /\ argi' = argi + 1
    /\ pc' = "rest"
    /\ UNCHANGED <<src, line, stack, ret, lambdas, positions, diag, out, gen, status, ub,
                   argv, file, shell>>

\* lines 519-522
ArgHelp ==
    /\ InArgs
    /\ Arg(argi) # DashDash
    /\ Arg(argi) \in HelpFlags
    /\ out' = Append(out, Tok("usage", 0))
    /\ pc' = "done"
    /\ status' = <<0>>
    /\ UNCHANGED <<cli, src, line, stack, ret, lambdas, positions, diag, gen, ub>>

\* lines 523-526
ArgVersion ==
    /\ InArgs
    /\ Arg(argi) # DashDash
    /\ Arg(argi) \notin HelpFlags
    /\ Arg(argi) \in VersionFlags
    /\ out' = Append(out, Tok("version", 0))
    /\ pc' = "done"
    /\ status' = <<0>>
    /\ UNCHANGED <<cli, src, line, stack, ret, lambdas, positions, diag, gen, ub>>

\* none of the tests of lines 515-526 holds
NoFlag(a) == a # DashDash /\ a \notin HelpFlags /\ a \notin VersionFlags

\* lines 527-531
ArgUnrecognized ==
    /\ InArgs
    /\ NoFlag(Arg(argi))
    /\ FirstByte(Arg(argi)) = "-"
    /\ diag' = Complain(<<"unrecognized option", "usage">>)
    /\ pc' = "done"
    /\ status' = <<1>>
    /\ UNCHANGED <<cli, src, line, stack, ret, lambdas, positions, out, gen, ub>>

\* a second file is taken in place of the first
ArgSecondFileReplaces ==
    /\ InArgs
    /\ NoFlag(Arg(argi))
    /\ FirstByte(Arg(argi)) # "-"
    /\ file # NoValue
    /\ file' = <<Arg(argi)>>
    /\ argi' = argi + 1
    /\ UNCHANGED <<src, line, stack, ret, lambdas, positions, diag, out, pc, gen, status,
                   ub, argv, shell>>

\* lines 532-536
ArgSecondFile ==
    /\ InArgs
    /\ NoFlag(Arg(argi))
    /\ FirstByte(Arg(argi)) # "-"
    /\ file # NoValue
    /\ diag' = Complain(<<"only 1 file allowed", "usage">>)
    /\ pc' = "done"
    /\ status' = <<1>>
    /\ UNCHANGED <<cli, src, line, stack, ret, lambdas, positions, out, gen, ub>>

\* line 537 and the ++i of line 514
ArgFile ==
    /\ InArgs
    /\ NoFlag(Arg(argi))
    /\ FirstByte(Arg(argi)) # "-"
    /\ file = NoValue
    /\ file' = <<Arg(argi)>>
    /\ argi' = argi + 1
    /\ UNCHANGED <<src, line, stack, ret, lambdas, positions, diag, out, pc, gen, status,
                   ub, argv, shell>>

\* line 514: i == argc
ArgsEnd ==
    /\ pc = "args"
    /\ argi = argc
    /\ pc' = "rest"
    /\ UNCHANGED <<cli, src, line, stack, ret, lambdas, positions, diag, out, gen, status, ub>>

\* lines 539-540: `file` and i once an argument behind `--` has been taken
TakesRest == file = NoValue /\ argi # argc

RestFile == IF TakesRest THEN <<Arg(argi)>> ELSE file

RestIndex == IF TakesRest THEN argi + 1 ELSE argi

\* lines 541-545
RestTooMany ==
    /\ pc = "rest"
    /\ RestIndex # argc
    /\ file' = RestFile
    /\ argi' = RestIndex
    /\ diag' = Complain(<<"only 1 file allowed", "usage">>)
    /\ pc' = "done"
    /\ status' = <<1>>
    /\ UNCHANGED <<src, line, stack, ret, lambdas, positions, out, gen, ub, argv, shell>>

\* lines 547-550
RestNoFile ==
    /\ pc = "rest"
    /\ RestIndex = argc
    /\ RestFile = NoValue
    /\ diag' = Complain(<<"usage">>)
    /\ pc' = "done"
    /\ status' = <<1>>
    /\ UNCHANGED <<cli, src, line, stack, ret, lambdas, positions, out, gen, ub>>

\* line 552: main goes on to parse_open(&source, file)
RestOpen ==
    /\ pc = "rest"
    /\ RestIndex = argc
    /\ RestFile # NoValue
    /\ file' = RestFile
    /\ argi' = RestIndex
    /\ pc' = "open"
    /\ UNCHANGED <<src, line, stack, ret, lambdas, positions, diag, out, gen, status, ub,
                   argv, shell>>

MainNext ==
    \/ ArgDashDash
    \/ ArgHelp
    \/ ArgVersion
    \/ ArgUnrecognized
    \/ ArgSecondFile
    \/ ArgFile
    \/ ArgsEnd
    \/ RestTooMany
    \/ RestNoFile
    \/ RestOpen

SpecMain == MainInit /\ [][MainNext]_vars

-----------------------------------------------------------------------------
(* main() of lambda-cc.c: the compiler driver *)

\* the arguments after argc-- and argv++, lines 210-211
CcArgc == Len(argv) - 1

CcArg(i) == argv[i + 2]

\* the table of lcc_source_find, lines 164-170
exts ==
    <<(<<".", "c">>), <<".", "c", "c">>, <<".", "c", "x">>, <<".", "c", "x", "x">>,
      <<".", "c", "p", "p">>>>

\* lines 174-190: an occurrence of the extension that ends the argument
EndsWith(a, e) == Len(a) >= Len(e) /\ SubSeq(a, Len(a) - Len(e) + 1, Len(a)) = e

IsSource(a) == \E e \in 1..Len(exts) : EndsWith(a, exts[e])

\* lcc_source_find: the index of the first argument with an extension of
\* the table, -1 when there is none
SourceIndex ==
    LET S == {i \in 0..(CcArgc - 1) : IsSource(CcArg(i))} IN
    IF S = {} THEN -1 ELSE Min(S)

\* source->cpp, line 186: the first extension of the table that fits is not ".c"
SourceCpp ==
    LET a == CcArg(SourceIndex) IN Min({e \in 1..Len(exts) : EndsWith(a, exts[e])}) - 1 >= 1

\* lcc_output_find: the index of the first "-o", -1 when there is none or
\* when nothing follows the first one
OutputIndex ==
    LET O == {i \in 0..(CcArgc - 1) : CcArg(i) = <<"-", "o">>} IN
    IF O = {} \/ Min(O) + 1 >= CcArgc THEN -1 ELSE Min(O)

aout == OutputIndex = -1

OutputName == IF aout THEN <<"a", ".", "o", "u", "t">> ELSE CcArg(OutputIndex + 1)

\* the arguments i of lo .. hi - 1 appended as "%s ", the source left out
\* where the loop leaves it out
RECURSIVE Appended(_, _, _)
Appended(lo, hi, skip) ==
    IF lo >= hi THEN <<>>
    ELSE (IF lo = skip THEN <<>> ELSE CcArg(lo) \o <<" ">>) \o Appended(lo + 1, hi, skip)

\* lines 279-280 and 292-293: buffer[used - 2] = '\0'
Trimmed(b) == IF Len(b) >= 1 THEN SubSeq(b, 1, Len(b) - 1) ELSE b

\* lines 270-280
args_before == Trimmed(Appended(0, IF aout THEN CcArgc ELSE OutputIndex, SourceIndex))

\* lines 283-293: nothing is left out of this loop
args_after == Trimmed(Appended((IF aout THEN CcArgc ELSE OutputIndex) + 2, CcArgc, -1))

\* what lcc_compiler_find and lcc_lambdapp_find return when they find
CompilerName == <<"c", "c">>

LambdappDir == <<".">>

\* line 301: "%s/lambda-pp %s | %s -x%s %s - -o %s %s"
ShellCommand ==
    LambdappDir \o <<"/", "l", "a", "m", "b", "d", "a", "-", "p", "p", " ">>
    \o CcArg(SourceIndex) \o <<" ", "|", " ">> \o CompilerName
    \o <<" ", "-", "x">> \o (IF SourceCpp THEN <<"c", "+", "+">> ELSE <<"c">>)
    \o <<" ">> \o args_before \o <<" ", "-", " ", "-", "o", " ">> \o OutputName
    \o <<" ">> \o args_after

\* lines 250-254: the compiler and every argument behind " "
LinkCommand == CompilerName \o (IF CcArgc = 0 THEN <<>> ELSE <<" ">> \o Trimmed(Appended(0, CcArgc, -1)))

CcWords ==
    {<<"-", "c">>, <<"-", "o">>, <<"a", ".", "c">>, <<"b", ".", "c", "c">>, <<"o">>,
     <<"-", "D", " ", "x">>}

RECURSIVE CcLists(_)
CcLists(n) ==
    IF n = 0 THEN {<<>>}
    ELSE CcLists(n - 1) \cup {Append(v, a) : v \in CcLists(n - 1), a \in CcWords}

DriverName == <<"l", "a", "m", "b", "d", "a", "-", "c", "c">>

CcInit ==
    /\ argv \in {<<DriverName>> \o v : v \in CcLists(MaxArgs + 1)}
    /\ argi = 0
    /\ file = NoValue
    /\ shell = <<>>
    /\ pc = "lcc"
    /\ src = <<"x">>
    /\ line = 1
    /\ stack = <<>>
    /\ ret = NoValue
    /\ lambdas = <<>>
    /\ positions = <<>>
    /\ diag = <<>>
    /\ out = <<>>
    /\ gen = [pos |-> 0, len |-> 0, lam |-> 0, proto |-> 0, idx |-> 0]
    /\ status = NoValue
    /\ ub = FALSE

\* the driver gives up with status 1 after a line on stderr
GivesUp(message) ==
    /\ diag' = Complain(<<message>>)
    /\ pc' = "done"
    /\ status' = <<1>>
    /\ UNCHANGED <<cli, src, line, stack, ret, lambdas, positions, out, gen, ub>>

\* lines 213-216
LccUsage ==
    /\ pc = "lcc"
    /\ CcArgc = 0
    /\ GivesUp("usage")

\* lines 218-222, lcc_compiler_find returns NULL
LccNoCompiler ==
    /\ pc = "lcc"
    /\ CcArgc # 0
    /\ GivesUp("Couldn't find a compiler")

\* line 218, a compiler is found
LccCompiler ==
    /\ pc = "lcc"
    /\ CcArgc # 0
    /\ pc' = "lambdapp"
    /\ UNCHANGED <<cli, src, line, stack, ret, lambdas, positions, diag, out, gen, status, ub>>

\* lines 224-228, lcc_lambdapp_find returns NULL
LccNoLambdapp ==
    /\ pc = "lambdapp"
    /\ GivesUp("Couldn't find lambda-pp")

\* line 224, lambda-pp is found
LccLambdapp ==
    /\ pc = "lambdapp"
    /\ pc' = "command"
    /\ UNCHANGED <<cli, src, line, stack, ret, lambdas, positions, diag, out, gen, status, ub>>

\* lines 233-241 and 319-325: an allocation fails
LccOutOfMemory ==
    /\ pc = "command"
    /\ GivesUp("Out of memory")

\* system() ran the command; the driver returns what it returned
Ran(command) ==
    /\ shell' = command
    /\ pc' = "done"
    /\ \E s \in {0, 1} : status' = <<s>>
    /\ UNCHANGED <<src, line, stack, ret, lambdas, positions, diag, out, gen, ub, argv,
                   argi, file>>

\* lines 245-259: no source file, the compiler is run as it was called
LccLink ==
    /\ pc = "command"
    /\ SourceIndex = -1
    /\ Ran(LinkCommand)

\* lines 261-317
LccCompile ==
    /\ pc = "command"
    /\ SourceIndex # -1
    /\ Ran(ShellCommand)

CcNext ==
    \/ LccUsage
    \/ LccNoCompiler
    \/ LccCompiler
    \/ LccNoLambdapp
    \/ LccLambdapp
    \/ LccOutOfMemory
    \/ LccLink
    \/ LccCompile

SpecCC == CcInit /\ [][CcNext]_vars

-----------------------------------------------------------------------------
(* What the claims speak of *)

\* the 1-based line of the file on which offset k stands
TrueLine(k) == 1 + Cardinality({m \in 0..(k - 1) : m < Length /\ Data(m) = NL})

ParseMessages == {"too many closing parenthesis", "mismatching"}

\* the diagnostics parse_error has written
ParseErrors == SelectSeq(diag, LAMBDA d : d.message \in ParseMessages)

\* the process has ended normally after a scan that did not fail
Succeeded == pc = "done" /\ status = <<0>> /\ ret # NoValue /\ ret # <<ERROR>>

IsPrefix(s, t) == Len(s) <= Len(t) /\ SubSeq(t, 1, Len(s)) = s

\* offset of the closing brace of a captured lambda
EndOf(l) == l.body.begin + l.body.length

\* lambda a's body holds lambda b
Inside(b, a) == a.body.begin < b.start /\ EndOf(b) < EndOf(a)

TopLevel(k) == \A m \in 1..Len(lambdas) : ~Inside(lambdas[k], lambdas[m])

Leaf(k) == \A m \in 1..Len(lambdas) : ~Inside(lambdas[m], lambdas[k])

\* the tokens around index p that are not copied source bytes
RECURSIVE NextNonSrc(_)
NextNonSrc(p) ==
    IF p + 1 > Len(out) THEN 0
    ELSE IF out[p + 1].t # "src" THEN p + 1 ELSE NextNonSrc(p + 1)

RECURSIVE PrevNonSrc(_)
PrevNonSrc(p) ==
    IF p - 1 < 1 THEN 0
    ELSE IF out[p - 1].t # "src" THEN p - 1 ELSE PrevNonSrc(p - 1)

\* out[p] is the name in the head of a hoisted definition: its argument list
\* is followed by the line directive of the body, not by `;` or `; &...`
IsDefinition(p) ==
    /\ out[p].t = "name"
    /\ NextNonSrc(p) # 0
    /\ out[NextNonSrc(p)].t = "nl"
    /\ PrevNonSrc(p) # 0
    /\ out[PrevNonSrc(p)].t = "static"

\* out[p] is the name in a forward declaration
IsDeclaration(p) ==
    /\ out[p].t = "name"
    /\ NextNonSrc(p) # 0
    /\ out[NextNonSrc(p)].t = "semi"
    /\ PrevNonSrc(p) # 0
    /\ out[PrevNonSrc(p)].t = "static"

Definitions(k) == {p \in 1..Len(out) : out[p] = Tok("name", k) /\ IsDefinition(p)}

TopRefs(k) == {p \in 1..Len(out) : out[p] = Tok("ref", k)}

BodyRefs(k) == {p \in 1..Len(out) : out[p] = Tok("close", k)}

\* where the hoisted functions begin in out
HoistStart ==
    LET D == {p \in 1..Len(out) : IsDefinition(p)} IN
    IF D = {} THEN Len(out) ELSE PrevNonSrc(Min(D))

\* the top-level code of the output: the references and the source bytes
\* that are not part of a forward declaration
IsTopCode(p) ==
    /\ p < HoistStart
    /\ \/ out[p].t = "ref"
       \/ /\ out[p].t = "src"
          /\ PrevNonSrc(p) # 0
          /\ out[PrevNonSrc(p)].t \in {"marker", "ref", "line"}

RECURSIVE TopCodeFrom(_)
TopCodeFrom(p) ==
    IF p > Len(out) THEN <<>>
    ELSE (IF IsTopCode(p) THEN <<out[p]>> ELSE <<>>) \o TopCodeFrom(p + 1)

TopCode == TopCodeFrom(1)

\* the file with every lambda that is not nested replaced by its reference
RECURSIVE ReplacedFrom(_)
ReplacedFrom(off) ==
    IF off >= Length THEN <<>>
    ELSE LET K == {k \in 1..Len(lambdas) : TopLevel(k) /\ lambdas[k].start = off} IN
         IF K = {} THEN <<Tok("src", off)>> \o ReplacedFrom(off + 1)
         ELSE LET k == CHOOSE k \in K : TRUE IN
              <<Tok("ref", k - 1)>> \o ReplacedFrom(EndOf(lambdas[k]) + 1)

SrcTokens(b, n) == [k \in 1..n |-> [t |-> "src", n |-> b + k - 1]]

\* tokens a and b agree, the number of a line directive left open
SameToken(a, b) == a.t = b.t /\ (a.t = "line" \/ a.n = b.n)

\* pattern occurs in out at index p
OccursAt(pattern, p) ==
    /\ p + Len(pattern) - 1 <= Len(out)
    /\ \A m \in 1..Len(pattern) : SameToken(out[p + m - 1], pattern[m])

\* `static T lambda_N A`, the line directive, the body `{ B }`, and the end
\* of the function's text
HoistedText(k) ==
    LET l == lambdas[k] IN
    <<[t |-> "static", n |-> 0]>>
    \o SrcTokens(l.type.begin, l.type.length)
    \o <<[t |-> "name", n |-> k - 1]>>
    \o SrcTokens(l.args.begin, l.args.length)
    \o <<[t |-> "nl", n |-> 0], [t |-> "line", n |-> 0]>>
    \o SrcTokens(l.body.begin, l.body.length + 1)
    \o <<[t |-> "nl", n |-> 0]>>

-----------------------------------------------------------------------------
(* Claims *)

\* C5: when a scan that succeeded has recorded no lambda (as it must when
\* the file does not hold the keyword at all), the output is the file marker
\* for line 1, every byte of the file in order, and a final newline.
PassedThrough ==
    out = <<[t |-> "marker", n |-> 1]>> \o SrcTokens(0, Length)
          \o <<[t |-> "nl", n |-> 0]>>

NoKeyword == \A k \in 0..Length : ~IsKeywordAt(k)

C6_MismatchCitesItsLine ==
    [][(InLoop /\ Data(Top.i) \in Closers /\ CloseMismatch(Top))
        => /\ ret' = <<ERROR>>
           /\ diag' = Append(diag, [line |-> TrueLine(Top.i),
                                     message |-> "mismatching"])]_vars

\* C7: a closing delimiter met while the delimiter stack of the current scan
\* is empty makes the scan fail with the too-many-closing diagnostic, and
\* from then on no byte is scanned: the calls only return.
C7_TooManyClosingStops ==
    [][/\ (InLoop /\ Data(Top.i) \in Closers /\ Top.parens = <<>>)
          => /\ ret' = <<ERROR>>
             /\ diag' = Append(diag, [line |-> line,
                                       message |-> "too many closing parenthesis"])
             /\ stack' = Pop
       /\ (ret = <<ERROR>>)
          => /\ ret' = <<ERROR>>
             /\ line' = line
             /\ lambdas' = lambdas
             /\ positions' = positions
             /\ diag' = diag
             /\ IsPrefix(stack', stack)]_vars

\* the first delimiter of the file is a closer with bytes left behind it
C7_TooManyClosingHappens ==
    /\ ret = <<ERROR>>
    /\ Len(diag) = 1
    /\ diag[1].message = "too many closing parenthesis"
    /\ \E k \in 0..(Length - 2) :
          /\ Data(k) \in Closers
          /\ \A m \in 0..(k - 1) : Data(m) \notin (Openers \cup Closers \cup {DQ, SQ})
          /\ \E m \in (k + 1)..(Length - 1) : Data(m) \in Openers

\* C8: once parse_error has reported, at whatever depth of the recursion,
\* the failure is what every call returns up to the top-level one, there is
\* exactly one diagnostic, and nothing is ever written to the output.
C8_ErrorPropagates ==
    ParseErrors # <<>> =>
        /\ Len(diag) = 1
        /\ out = <<>>
        /\ ret = <<ERROR>>
        /\ pc \in {"parse", "exit", "done"}
        /\ pc = "parse" /\ stack # <<>> => Top.pc # "loop" /\ Top.pc # "enter"
        /\ pc # "done" => ENABLED Next

C8_ErrorAtDepthHappens ==
    /\ ParseErrors # <<>>
    /\ ret = <<ERROR>>
    /\ Len(stack) >= 3

\* C9: the process exits with a non-zero status whenever the scan reported
\* a parse error.
C9_ParseErrorExitsNonZero ==
    pc = "done" /\ ParseErrors # <<>> => status # <<0>>

\* C10: a capture is started only where the identifier that just ended is
\* exactly the keyword, and every recorded lambda starts at such a word.
IdentByte(a) == isalnum(a) \/ a = "_"

ExactKeywordEndsAt(e) ==
    /\ e >= 6
    /\ IsKeywordAt(e - 6)
    /\ e = 6 \/ ~IdentByte(Data(e - 7))
    /\ ~IdentByte(Data(e))

C10_CaptureOnlyAtExactKeyword ==
    /\ \A k \in 2..Len(stack) :
          stack[k].inlambda => ExactKeywordEndsAt(stack[k - 1].i)
    /\ \A k \in 1..Len(lambdas) : ExactKeywordEndsAt(lambdas[k].start + 6)

\* C3: in a successful output every lambda that the top-level code refers
\* to has its forward declaration `static T lambda_N A;` earlier in the
\* output than that reference.
C3_DeclaredBeforeReference ==
    Succeeded =>
        \A p \in 1..Len(out) :
            out[p].t = "ref" =>
                \E q \in 1..(p - 1) : out[q] = Tok("name", out[p].n) /\ IsDeclaration(q)

\* C4: read as a C compiler reads it (the file marker and a #line directive
\* set the number of the next line, a newline adds one), a successful output
\* attributes every copied source byte to the line it has in the file.
RECURSIVE AttributedFrom(_, _)
AttributedFrom(p, cur) ==
    IF p > Len(out) THEN TRUE
    ELSE LET o == out[p] IN
         CASE o.t \in {"marker", "line"} -> AttributedFrom(p + 1, o.n)
           [] o.t = "nl" -> AttributedFrom(p + 1, cur + 1)
           [] o.t = "src" -> /\ cur = TrueLine(o.n)
                             /\ AttributedFrom(p + 1, IF Data(o.n) = NL THEN cur + 1
                                                                       ELSE cur)
           [] OTHER -> AttributedFrom(p + 1, cur)

C4_LinesAttributed == Succeeded => AttributedFrom(1, 1)

\* C1: in a successful output a lambda that is neither nested nor holds a
\* nested lambda is replaced, whole, by its reference in the top-level code,
\* and behind all top-level code stands its function: `static T lambda_N A`
\* followed by exactly the bytes of `{ B }`.
C1_LeafLambdaHoisted ==
    Succeeded =>
        \A k \in 1..Len(lambdas) :
            TopLevel(k) /\ Leaf(k) =>
                /\ TopCode = ReplacedFrom(0)
                /\ \E p \in 1..Len(out) :
                      /\ OccursAt(HoistedText(k), p)
                      /\ \A q \in 1..Len(out) : IsTopCode(q) => q < p

\* C2: every captured lambda has exactly one hoisted function and exactly
\* one reference: in the top-level code when it is not nested, otherwise in
\* the hoisted body of the lambda that directly holds it, whose index is
\* lower.
Parent(k) ==
    CHOOSE a \in 1..Len(lambdas) :
        /\ Inside(lambdas[k], lambdas[a])
        /\ \A m \in 1..Len(lambdas) :
              Inside(lambdas[k], lambdas[m]) => m = a \/ Inside(lambdas[a], lambdas[m])

\* index p of out lies in the hoisted function of lambda a
InFunctionOf(a, p) ==
    LET D == {q \in 1..p : IsDefinition(q)} IN
    /\ D # {}
    /\ out[CHOOSE q \in D : \A r \in D : r <= q].n = a - 1

C2_NestingResolved ==
    Succeeded =>
        \A k \in 1..Len(lambdas) :
            /\ Cardinality(Definitions(k - 1)) = 1
            /\ IF TopLevel(k)
               THEN /\ BodyRefs(k - 1) = {}
                    /\ Cardinality(TopRefs(k - 1)) = 1
                    /\ \A p \in TopRefs(k - 1) : p < HoistStart
               ELSE /\ TopRefs(k - 1) = {}
                    /\ Cardinality(BodyRefs(k - 1)) = 1
                    /\ Parent(k) < k
                    /\ \A p \in BodyRefs(k - 1) : InFunctionOf(Parent(k), p)

\* C11: no step of a scan taken at a byte of a `//` or `/* */` comment
\* changes the delimiter stack, opens a literal, starts a capture or ends
\* the call, and no insertion position is recorded inside a comment.
\* The kinds of the bytes of the file as C reads them: "code", "opens" (the
\* first byte of a comment), "comment", "quote" (the quotes of a literal)
\* and "literal" (the bytes between them)
RECURSIVE LiteralKinds(_, _)
RECURSIVE CodeKinds(_)
RECURSIVE LineCommentKinds(_)
RECURSIVE BlockCommentKinds(_)
LiteralKinds(i, q) ==
    IF i >= Length THEN <<>>
    ELSE IF Data(i) = q THEN <<"quote">> \o CodeKinds(i + 1)
    ELSE IF Data(i) = BSL /\ i + 1 < Length
         THEN <<"literal", "literal">> \o LiteralKinds(i + 2, q)
    ELSE <<"literal">> \o LiteralKinds(i + 1, q)

LineCommentKinds(i) ==
    IF i >= Length THEN <<>>
    ELSE IF Data(i) = NL THEN CodeKinds(i)
    ELSE <<"comment">> \o LineCommentKinds(i + 1)

BlockCommentKinds(i) ==
    IF i >= Length THEN <<>>
    ELSE IF Data(i) = "*" /\ Data(i + 1) = "/"
         THEN <<"comment", "comment">> \o CodeKinds(i + 2)
    ELSE <<"comment">> \o BlockCommentKinds(i + 1)

CodeKinds(i) ==
    IF i >= Length THEN <<>>
    ELSE IF Data(i) = "/" /\ Data(i + 1) = "/"
         THEN <<"opens", "comment">> \o LineCommentKinds(i + 2)
    ELSE IF Data(i) = "/" /\ Data(i + 1) = "*"
         THEN <<"opens", "comment">> \o BlockCommentKinds(i + 2)
    ELSE IF Data(i) \in {DQ, SQ} THEN <<"quote">> \o LiteralKinds(i + 1, Data(i))
    ELSE <<"code">> \o CodeKinds(i + 1)

Kind(k) == IF k < Length THEN CodeKinds(0)[k + 1] ELSE "code"

C11_CommentsInert ==
    [][(InLoop /\ Kind(Top.i) \in {"opens", "comment"})
        => /\ Len(stack') = Len(stack)
           /\ stack'[Len(stack)].parens = Top.parens
           /\ Branch(Top) # "quote"
           /\ \A m \in 1..Len(positions') :
                 m > Len(positions) => Kind(positions'[m].pos) # "comment"]_vars

\* C12: for an argument vector without a help or version flag, main goes on
\* to open a file exactly when no argument ahead of `--` begins with `-` and
\* there is exactly one file argument (an argument that does not begin with
\* `-`, or any argument behind `--`), and then it opens that one; otherwise
\* it exits with status 1 and opens nothing.
Arguments == SubSeq(argv, 2, Len(argv))

\* the index of the first `--`, or one past the end
RECURSIVE FirstDashDash(_)
FirstDashDash(k) ==
    IF k > Len(Arguments) \/ Arguments[k] = DashDash THEN k ELSE FirstDashDash(k + 1)

Options ==
    {k \in 1..(FirstDashDash(1) - 1) : Arguments[k] # <<>> /\ Arguments[k][1] = "-"}

Positional ==
    {k \in 1..Len(Arguments) : k > FirstDashDash(1) \/ (k < FirstDashDash(1) /\ k \notin Options)}

HasFlag ==
    \E k \in 1..(FirstDashDash(1) - 1) : Arguments[k] \in HelpFlags \cup VersionFlags

C12_OneFileOrStatusOne ==
    (pc \in {"open", "done"} /\ ~HasFlag) =>
        IF Options = {} /\ Cardinality(Positional) = 1
        THEN pc = "open" /\ \A k \in Positional : file = <<Arguments[k]>>
        ELSE pc = "done" /\ status = <<1>>

C12_FileBehindDashDashHappens ==
    /\ pc = "open"
    /\ Len(Arguments) = 2
    /\ Arguments[1] = DashDash
    /\ file = <<(<<"-", "x">>)>>

\* C13: when exactly one of the driver's arguments is a source file, the
\* compiler is run with: every argument ahead of `-o` but the source file,
\* then `-`, `-o` and the output name, then every argument behind the output
\* name but the source file, each of them once and as one argument.
\* the words a shell makes of a command line
RECURSIVE Words(_, _)
Words(b, w) ==
    IF b = <<>> THEN (IF w = <<>> THEN <<>> ELSE <<w>>)
    ELSE IF b[1] = " " THEN (IF w = <<>> THEN <<>> ELSE <<w>>) \o Words(Tail(b), <<>>)
    ELSE Words(Tail(b), Append(w, b[1]))

GivenArgs == SubSeq(argv, 2, Len(argv))

Sources == {k \in 1..Len(GivenArgs) : IsSource(GivenArgs[k])}

\* the index of `-o` in the `-o <output>` pair, 0 without one
PairAt ==
    LET O == {k \in 1..(Len(GivenArgs) - 1) : GivenArgs[k] = <<"-", "o">>} IN
    IF O = {} THEN 0 ELSE CHOOSE k \in O : \A m \in O : k <= m

RECURSIVE Others(_, _)
Others(lo, hi) ==
    IF lo > hi THEN <<>>
    ELSE (IF lo \in Sources THEN <<>> ELSE <<GivenArgs[lo]>>) \o Others(lo + 1, hi)

\* the command after the pipe
RECURSIVE AfterPipe(_)
AfterPipe(ws) ==
    IF ws = <<>> THEN <<>>
    ELSE IF ws[1] = <<"|">> THEN Tail(ws) ELSE AfterPipe(Tail(ws))

CompilerArgs == Tail(Tail(AfterPipe(Words(shell, <<>>))))

C13_ArgumentsCarriedOnce ==
    (pc = "done" /\ shell # <<>> /\ Cardinality(Sources) = 1) =>
        IF PairAt = 0
        THEN CompilerArgs = Others(1, Len(GivenArgs))
                            \o <<(<<"-">>), <<"-", "o">>, <<"a", ".", "o", "u", "t">>>>
        ELSE CompilerArgs = Others(1, PairAt - 1)
                            \o <<(<<"-">>), <<"-", "o">>, GivenArgs[PairAt + 1]>>
                            \o Others(PairAt + 2, Len(GivenArgs))

\* C14: the three line numbers of every recorded lambda are the lines of
\* the file on which its return type begins, its body opens and its body
\* closes.
C14_RecordedLinesAreTrue ==
    \A k \in 1..Len(lambdas) :
        LET l == lambdas[k] IN
        /\ l.type_line = TrueLine(l.type.begin)
        /\ l.body_line = TrueLine(l.body.begin)
        /\ l.end_line = TrueLine(EndOf(l))

\* C15: when the top-level call of the scan returns without a failure, its
\* delimiter stack is empty.
C15_BalancedAtReturn ==
    [][(Scanning /\ Len(stack) = 1 /\ stack' = <<>> /\ ret' # <<ERROR>>)
        => Top.parens = <<>>]_vars

\* C16: a lambda capture that finds the end of the buffer before the
\* closing brace of its body returns a failure and appends no record.
C16_EndOfBufferInLambdaFails ==
    [][(Scanning /\ Top.inlambda /\ Top.pc = "loop" /\ Top.i >= Length)
        => /\ stack' = Pop
           /\ lambdas' = lambdas
           /\ ret' = <<ERROR>>]_vars

\* The end of a literal whose opening quote q stands just ahead of offset k.
RECURSIVE ClosingQuote(_, _)
ClosingQuote(k, q) ==
    IF k >= Length THEN Length
    ELSE IF Data(k) = q THEN k + 1
    ELSE IF Data(k) = BSL
         THEN (IF k + 1 >= Length THEN Length ELSE ClosingQuote(k + 2, q))
    ELSE ClosingQuote(k + 1, q)

\* C17: no step of a scan taken at a byte between the quotes of a literal
\* changes the delimiter stack, records a position, starts a comment,
\* starts a capture or ends the call; and the step taken at an opening
\* quote leaves the scan just behind the closing quote of the same kind, a
\* backslash taking the byte behind it into the literal, or at the end of
\* the buffer when there is none.
C17_LiteralsInert ==
    [][/\ (InLoop /\ Kind(Top.i) = "literal")
          => /\ Len(stack') = Len(stack)
             /\ stack'[Len(stack)].parens = Top.parens
             /\ positions' = positions
             /\ stack'[Len(stack)].i = Top.i + 1
       /\ (InLoop /\ Kind(Top.i) = "quote" /\ Data(Top.i) \in {DQ, SQ}
           /\ Len(stack') = Len(stack))
          => /\ stack'[Len(stack)].i = ClosingQuote(Top.i + 1, Data(Top.i))
             /\ stack'[Len(stack)].parens = Top.parens]_vars

\* the nesting depth of offset k: the opening delimiters ahead of it that
\* stand in code, less the closing ones
Depth(k) ==
    Cardinality({m \in 0..(k - 1) : Kind(m) = "code" /\ Data(m) \in {"(", "[", "{"}})
    - Cardinality({m \in 0..(k - 1) : Kind(m) = "code" /\ Data(m) \in {")", "]", "}"}})

\* a `#` at top level, and the offsets of its line behind it
DirectiveAt(h) == h < Length /\ Data(h) = "#" /\ Kind(h) = "code" /\ Depth(h) = 0

InDirective(p) ==
    \E h \in 0..(p - 1) :
        DirectiveAt(h) /\ \A k \in h..(p - 1) : Data(k) # NL

\* C18: no recorded position lies behind a top-level `#` and ahead of the
\* newline that ends its line.
C18_NoPositionInDirective ==
    \A m \in 1..Len(positions) : ~InDirective(positions[m].pos)

\* the scan has returned an offset to parse_file and the program has gone on
ScanSucceeded ==
    /\ pc \in {"proto", "code", "hoist", "sliced", "exit", "done"}
    /\ ret # NoValue
    /\ ret # <<ERROR>>

\* C19: after a scan that succeeded the table of positions is not empty and
\* its first entry is offset 0.
C19_TableStartsAtZero ==
    ScanSucceeded => positions # <<>> /\ positions[1].pos = 0

\* C20: the positions appended so far are strictly increasing in pos, in the
\* order of their appending.
C20_PositionsIncrease ==
    \A m \in 1..(Len(positions) - 1) : positions[m].pos < positions[m + 1].pos

\* three positions have been appended, the last two inside one line
C20_ThreePositionsHappen ==
    /\ Len(positions) >= 3
    /\ positions[Len(positions)].line = positions[Len(positions) - 1].line

\* the captures that are under way below the top of the stack: each is at
\* the parse_word call of an arm of its body's loop
Enclosing == {d \in 1..(Len(stack) - 1) : stack[d].inlambda}

\* the top call appends its record in this step
Appends == Scanning /\ Len(lambdas') = Len(lambdas) + 1

\* C21: a lambda B captured while the body of a lambda A is scanned starts
\* behind A's opening brace and closes ahead of A's closing brace, and its
\* record is appended ahead of A's.
C21_NestedInsideAndFirst ==
    /\ [](pc = "parse" =>
            \A a, b \in 1..Len(lambdas) :
                Inside(lambdas[b], lambdas[a]) => b < a)
    /\ [][Appends =>
            LET B == lambdas'[Len(lambdas')] IN
            /\ \A d \in Enclosing :
                  /\ stack[d].lambda.body.begin < B.start
                  /\ stack[d].lambda.body.begin < EndOf(B)
                  /\ \A m \in 1..Len(lambdas') :
                        lambdas'[m].start # stack[d].lambda.start
            /\ \A m \in 1..Len(lambdas) :
                  lambdas[m].start > B.start =>
                      /\ B.body.begin < lambdas[m].start
                      /\ EndOf(lambdas[m]) < EndOf(B)]_vars

\* a lambda has been captured inside the body of a lambda that was captured
\* inside the body of a third
C21_TwoLevelsHappen ==
    /\ pc = "parse"
    /\ \E a, b, c \in 1..Len(lambdas) :
          Inside(lambdas[c], lambdas[b]) /\ Inside(lambdas[b], lambdas[a])

\* C22: when a capture started from an arm of a loop returns the offset of
\* the closing brace of its lambda, the loop goes on at the byte behind that
\* brace, with the delimiter stack the arm had when it made the call,
\* whatever the byte that ended the keyword.
C22_ResumesBehindLambda ==
    [][(Returned /\ Top.pc \in WordBranches /\ ret # <<ERROR>> /\ ret[1] < Length)
        => /\ Len(stack') = Len(stack)
           /\ stack'[Len(stack)].i = ret[1] + 1
           /\ stack'[Len(stack)].parens = Top.parens]_vars

\* the lambda whose hoisted body generate_sliced is writing
Hoisted == lambdas[gen.idx + 1]

\* offset k lies in the body of l, from its opening to its closing brace
InBody(l, k) == l.body.begin <= k /\ k <= EndOf(l)

\* C23: while the hoisted body of a lambda A is written, the length left to
\* write never falls below zero, every source byte written lies in A's body,
\* from its opening brace to its closing brace, and a reference is
\* written only for a lambda that starts inside A's body.
C23_SlicedStaysInBody ==
    /\ [](pc = "sliced" => gen.len >= 0)
    /\ [][pc = "sliced" =>
            /\ pc' \in {"sliced", "hoist"}
            /\ \A p \in (Len(out) + 1)..Len(out') :
                  /\ out'[p].t # "garbage"
                  /\ out'[p].t = "src" => InBody(Hoisted, out'[p].n)
                  /\ out'[p].t = "name" =>
                        /\ Hoisted.body.begin < lambdas[out'[p].n + 1].start
                        /\ lambdas[out'[p].n + 1].start < EndOf(Hoisted)]_vars

\* C24: during the scan no call of parse stands at an offset beyond the end
\* of the buffer, and no call returns one, whatever the file holds: an
\* unterminated literal, a `//` comment with no newline behind it or a `/*`
\* comment that is not closed included.
C24_OffsetsInsideBuffer ==
    pc = "parse" =>
        /\ \A d \in 1..Len(stack) : stack[d].i <= Length
        /\ (ret # NoValue /\ ret # <<ERROR>>) => ret[1] <= Length

=============================================================================
